---- MODULE Spec2Model ----
\* Model of agentcore/main.py: the AgentCore entrypoint `invoke`, an async
\* generator that reads payload["prompt"], opens agent.stream_async(prompt)
\* and re-yields the events of that stream that contain the key "event".
\*
\* Each invocation is one async-generator object.  Its position (pc) follows
\* the source lines of the body:
\*   "idle"     no generator object yet
\*   "created"  invoke(payload) was called; the body has not started (line 17)
\*   "open"     user_prompt is bound; about to call stream_async (line 20)
\*   "pull"     awaiting the next event of agent_stream (line 21)
\*   "test"     an event is bound; about to test `"event" in event` (line 22)
\*   "yield"    the test was true; about to yield the event (line 23)
\*   "yielded"  suspended at the yield; the caller has the event (line 23)
\*   "done"     the loop ended; the generator is exhausted
\*   "raised"   an exception left the body; the generator is finished
\*   "closed"   the caller closed the generator while it was suspended
\* The backend (strands Agent.stream_async) and the caller (the AgentCore
\* host) are outside the repository: they are the environment, and every
\* outcome they can produce is a nondeterministic choice.
EXTENDS Integers, Sequences, FiniteSets, TLC

VARIABLES agent, streams, pc, payload, user_prompt, agent_stream, event, out,
          dropped, err

vars == <<agent, streams, pc, payload, user_prompt, agent_stream, event, out,
          dropped, err>>

\* ---------------------------------------------------------------- bounds

\* The longest underlying stream the backend produces (events before it
\* completes or raises).
MaxStream == 2

\* The invocations the host dispatches; they may overlap in time.
Invocations == {1, 2}

\* ---------------------------------------------------------------- values

\* Python values, tagged by type.
PyStr(s) == [t |-> "str", v |-> s]

PyInt(s) == [t |-> "int", v |-> s]

None == [t |-> "NoneType", v |-> "None"]

\* A dict payload: d maps its keys to values.  A non-dict payload has no items.
Dict(d) == [t |-> "dict", d |-> d]

NonDict(t) == [t |-> t, d |-> <<>>]

\* The default of payload.get (line 19).
FALLBACK == PyStr("No prompt found in input, please guide customer to create a json payload with prompt key")

\* MODEL_ID (line 5) and the region (line 10) of the one model behind the agent.
MODEL_ID == "anthropic.claude-3-5-sonnet-20240620-v1:0"

\* create_agent() (lines 7-11): the Agent bound to the Bedrock model.
create_agent == [model_id |-> MODEL_ID, region |-> "us-east-1"]

\* The payloads the host passes: JSON values.  Mappings with and without
\* "prompt", with a non-string or falsy prompt, with another key; and JSON
\* values that are no mapping.
Payloads ==
    { Dict(<<>>),
      Dict([prompt |-> PyStr("2+2?")]),
      Dict([prompt |-> PyStr("x"), extra |-> PyInt("1")]),
      Dict([extra |-> PyInt("1")]),
      Dict([prompt |-> PyInt("0")]),
      Dict([prompt |-> None]),
      NonDict("list"),
      NonDict("NoneType") }

\* The key sets of the events the backend emits (strands emits dicts: raw
\* model events under "event", text deltas under "data", the final "result").
EventShapes == { {"event"}, {"data"} }

\* The errors the backend raises.
BackendErrors == { "AccessDeniedException", "ThrottlingException" }

\* An event of stream sid: its position in the stream and its keys.
Ev(sid, n, keys) == [sid |-> sid, n |-> n, keys |-> keys]

NoEvent == [sid |-> 0, n |-> 0, keys |-> {}]

Unset == [t |-> "unset", v |-> ""]

\* ------------------------------------------------------------ pure parts

\* A lenient payload access that treats a value without `get` as an empty
\* mapping instead of failing.
HasGetLenient(p) == TRUE

\* hasattr(payload, "get"): of the JSON values only a dict has it (line 19).
HasGet(p) == p.t = "dict"

Falsy(v) == v \in {None, PyInt("0"), PyStr("")}

\* `payload.get("prompt") or default`: a falsy prompt is replaced too.
GetOrDefault(p, key, default) ==
    IF key \in DOMAIN p.d /\ ~Falsy(p.d[key]) THEN p.d[key] ELSE default

\* `payload.get("prompt")` without the default: an absent key gives None.
GetNoDefault(p, key, default) == IF key \in DOMAIN p.d THEN p.d[key] ELSE None

\* dict.get(key, default) (line 19): the mapped value when the key is
\* present, whatever it is; the default only when the key is absent.
Get(p, key, default) == IF key \in DOMAIN p.d THEN p.d[key] ELSE default

\* A test that lets every non-empty event through.
HasAnyKey(e) == e.keys # {}

\* `"event" in event` (line 22): key membership in the event dict.
HasEventKey(e) == "event" \in e.keys

\* One module-level agent_stream shared by all invocations: the stream
\* opened last.
StreamOfShared(i) == Len(streams)

\* The stream an invocation iterates: its own local agent_stream (line 20-21).
StreamOf(i) == agent_stream[i]

\* A prefetching loop: the next event is requested while the previous one is
\* still held.
PullGuardPrefetch(i) == pc[i] \in {"pull", "test"}

\* The invocation is at the await of line 21 and asks the stream for an event.
PullGuard(i) == pc[i] = "pull"

Ended(i) == pc[i] \in {"done", "raised", "closed"}

\* ---------------------------------------------------------------- Init

\* Module load (lines 13-14): the agent is constructed; nothing is invoked.
Init ==
    /\ agent = create_agent
    /\ streams = <<>>
    /\ pc = [i \in Invocations |-> "idle"]
    /\ payload = [i \in Invocations |-> NonDict("NoneType")]
    /\ user_prompt = [i \in Invocations |-> Unset]
    /\ agent_stream = [i \in Invocations |-> 0]
    /\ event = [i \in Invocations |-> NoEvent]
    /\ out = [i \in Invocations |-> <<>>]
    /\ dropped = [i \in Invocations |-> 0]
    /\ err = [i \in Invocations |-> "none"]

\* ------------------------------------------------------------- actions

\* The host calls invoke(payload) (line 17): an async generator object is
\* created; no line of the body runs yet.
Invoke(i) ==
    /\ pc[i] = "idle"
    /\ \E p \in Payloads : payload' = [payload EXCEPT ![i] = p]
    /\ pc' = [pc EXCEPT ![i] = "created"]
    /\ UNCHANGED <<agent, streams, user_prompt, agent_stream, event, out, dropped, err>>

\* Line 19, run by the caller's first __anext__: payload.get("prompt", FALLBACK).
\* A payload without a get attribute raises AttributeError out of the body.
GetPrompt(i) ==
    /\ pc[i] = "created"
    /\ IF HasGet(payload[i])
       THEN /\ user_prompt' = [user_prompt EXCEPT ![i] = Get(payload[i], "prompt", FALLBACK)]
            /\ pc' = [pc EXCEPT ![i] = "open"]
            /\ err' = err
       ELSE /\ pc' = [pc EXCEPT ![i] = "raised"]
            /\ err' = [err EXCEPT ![i] = "AttributeError"]
            /\ user_prompt' = user_prompt
    /\ UNCHANGED <<agent, streams, payload, agent_stream, event, out, dropped>>

\* A memoising adapter: a prompt seen before reuses the stream opened for it.
OpenStreamMemo(i) ==
    /\ pc[i] = "open"
    /\ IF \E s \in 1..Len(streams) : streams[s].prompt = user_prompt[i]
       THEN /\ agent_stream' = [agent_stream EXCEPT ![i] =
                  CHOOSE s \in 1..Len(streams) : streams[s].prompt = user_prompt[i]]
            /\ streams' = streams
       ELSE /\ streams' = Append(streams, [inv |-> i, agent |-> agent, prompt |-> user_prompt[i],
                                           state |-> "open", sent |-> <<>>, error |-> "none"])
            /\ agent_stream' = [agent_stream EXCEPT ![i] = Len(streams) + 1]
    /\ pc' = [pc EXCEPT ![i] = "pull"]
    /\ UNCHANGED <<agent, payload, user_prompt, event, out, dropped, err>>

\* Line 20: agent.stream_async(user_prompt) is called on the shared agent and
\* its stream is bound to the local agent_stream.
OpenStream(i) ==
    /\ pc[i] = "open"
    /\ streams' = Append(streams, [inv |-> i, agent |-> agent, prompt |-> user_prompt[i],
                                   state |-> "open", sent |-> <<>>, error |-> "none"])
    /\ agent_stream' = [agent_stream EXCEPT ![i] = Len(streams) + 1]
    /\ pc' = [pc EXCEPT ![i] = "pull"]
    /\ UNCHANGED <<agent, payload, user_prompt, event, out, dropped, err>>

\* Line 21, the stream produces an event: it is bound to `event`.
PullEvent(i) ==
    /\ PullGuard(i)
    /\ LET s == StreamOf(i) IN
       /\ streams[s].state = "open"
       /\ Len(streams[s].sent) < MaxStream
       /\ \E k \in EventShapes :
            LET e == Ev(s, Len(streams[s].sent) + 1, k) IN
            /\ streams' = [streams EXCEPT ![s].sent = Append(@, e)]
            /\ event' = [event EXCEPT ![i] = e]
    /\ pc' = [pc EXCEPT ![i] = "test"]
    /\ UNCHANGED <<agent, payload, user_prompt, agent_stream, out, dropped, err>>

\* Line 21, the stream is exhausted (StopAsyncIteration): the loop and the
\* body end.
PullCompletes(i) ==
    /\ PullGuard(i)
    /\ LET s == StreamOf(i) IN
       /\ streams[s].state = "open"
       /\ streams' = [streams EXCEPT ![s].state = "exhausted"]
    /\ pc' = [pc EXCEPT ![i] = "done"]
    /\ UNCHANGED <<agent, payload, user_prompt, agent_stream, event, out, dropped, err>>

\* The stream raises and the body swallows it (`except Exception: return`).
PullRaisesSuppressed(i) ==
    /\ PullGuard(i)
    /\ LET s == StreamOf(i) IN
       /\ streams[s].state = "open"
       /\ \E x \in BackendErrors :
            streams' = [streams EXCEPT ![s].state = "failed", ![s].error = x]
    /\ pc' = [pc EXCEPT ![i] = "done"]
    /\ UNCHANGED <<agent, payload, user_prompt, agent_stream, event, out, dropped, err>>

\* Line 21, the stream raises: no try/except surrounds the loop, so the same
\* exception leaves the body.
PullRaises(i) ==
    /\ PullGuard(i)
    /\ LET s == StreamOf(i) IN
       /\ streams[s].state = "open"
       /\ \E x \in BackendErrors :
            /\ streams' = [streams EXCEPT ![s].state = "failed", ![s].error = x]
            /\ err' = [err EXCEPT ![i] = x]
    /\ pc' = [pc EXCEPT ![i] = "raised"]
    /\ UNCHANGED <<agent, payload, user_prompt, agent_stream, event, out, dropped>>

\* Line 22: `if "event" in event`; an event without the key is dropped and
\* the loop asks for the next one.
Test(i) ==
    /\ pc[i] = "test"
    /\ IF HasEventKey(event[i])
       THEN /\ pc' = [pc EXCEPT ![i] = "yield"]
            /\ dropped' = dropped
       ELSE /\ pc' = [pc EXCEPT ![i] = "pull"]
            /\ dropped' = [dropped EXCEPT ![i] = @ + 1]
    /\ UNCHANGED <<agent, streams, payload, user_prompt, agent_stream, event, out, err>>

\* Line 23: `yield event` hands the event to the caller and suspends.
Yield(i) ==
    /\ pc[i] = "yield"
    /\ out' = [out EXCEPT ![i] = Append(@, event[i])]
    /\ pc' = [pc EXCEPT ![i] = "yielded"]
    /\ UNCHANGED <<agent, streams, payload, user_prompt, agent_stream, event, dropped, err>>

\* The caller asks for the next event (__anext__): the body resumes after the
\* yield of line 23 and goes round the loop of line 21.
Resume(i) ==
    /\ pc[i] = "yielded"
    /\ pc' = [pc EXCEPT ![i] = "pull"]
    /\ UNCHANGED <<agent, streams, payload, user_prompt, agent_stream, event, out, dropped, err>>

\* Line 20, the call itself raises (a backend whose stream_async fails before
\* it returns a stream): the same exception leaves the body.
OpenRaises(i) ==
    /\ pc[i] = "open"
    /\ \E x \in BackendErrors :
         /\ streams' = Append(streams, [inv |-> i, agent |-> agent, prompt |-> user_prompt[i],
                                        state |-> "failed", sent |-> <<>>, error |-> x])
         /\ err' = [err EXCEPT ![i] = x]
    /\ agent_stream' = agent_stream
    /\ pc' = [pc EXCEPT ![i] = "raised"]
    /\ UNCHANGED <<agent, payload, user_prompt, event, out, dropped>>

\* The host cancels the task while the body awaits the stream (line 21):
\* CancelledError is raised at the innermost await, unwinds the stream's own
\* frame and then leaves the body, which has no handler for it.
Cancel(i) ==
    /\ pc[i] = "pull"
    /\ LET s == agent_stream[i] IN
       /\ streams[s].state = "open"
       /\ streams' = [streams EXCEPT ![s].state = "failed", ![s].error = "CancelledError"]
    /\ err' = [err EXCEPT ![i] = "CancelledError"]
    /\ pc' = [pc EXCEPT ![i] = "raised"]
    /\ UNCHANGED <<agent, payload, user_prompt, agent_stream, event, out, dropped>>

\* The caller stops iterating and closes the generator (aclose) while it is
\* suspended at the yield of line 23, or before its body started: GeneratorExit
\* unwinds the body.  Lines 20-23 hold no try/finally, no `async with` and no
\* aclose() of agent_stream, so the body leaves the stream as it is.
Close(i) ==
    /\ pc[i] \in {"created", "yielded"}
    /\ pc' = [pc EXCEPT ![i] = "closed"]
    /\ UNCHANGED <<agent, streams, payload, user_prompt, agent_stream, event, out, dropped, err>>

\* The runtime finalizes a stream that no live generator refers to any more:
\* the event loop's async-generator hook schedules its aclose() as a later
\* task.  This is the only thing that ever closes a stream left open by Close.
Finalize(i) ==
    /\ Ended(i)
    /\ agent_stream[i] # 0
    /\ streams[agent_stream[i]].state = "open"
    /\ streams' = [streams EXCEPT ![agent_stream[i]].state = "closed"]
    /\ UNCHANGED <<agent, pc, payload, user_prompt, agent_stream, event, out, dropped, err>>

\* A restartable sequence: asking an exhausted generator again runs the body
\* from line 20 once more.
NextAfterEndRestarts(i) ==
    /\ pc[i] = "done"
    /\ pc' = [pc EXCEPT ![i] = "open"]
    /\ UNCHANGED <<agent, streams, payload, user_prompt, agent_stream, event, out, dropped, err>>

\* The caller asks a finished generator for another event: StopAsyncIteration
\* at once; no line of the body runs again.
NextAfterEnd(i) ==
    /\ Ended(i)
    /\ UNCHANGED vars

Next ==
    \E i \in Invocations :
        \/ Invoke(i)
        \/ GetPrompt(i)
        \/ OpenStream(i)
        \/ OpenRaises(i)
        \/ PullEvent(i)
        \/ PullCompletes(i)
        \/ PullRaises(i)
        \/ Test(i)
        \/ Yield(i)
        \/ Resume(i)
        \/ Cancel(i)
        \/ Close(i)
        \/ Finalize(i)
        \/ NextAfterEnd(i)

Spec == Init /\ [][Next]_vars

\* The caller keeps consuming, the body keeps running when resumed, and the
\* stream answers every request (with an event, its end or an error).
Progress(i) ==
    \/ GetPrompt(i)
    \/ OpenStream(i)
    \/ OpenRaises(i)
    \/ PullEvent(i)
    \/ PullCompletes(i)
    \/ PullRaises(i)
    \/ Test(i)
    \/ Yield(i)
    \/ Resume(i)

FairSpec == Spec /\ \A i \in Invocations : WF_vars(Progress(i))

\* ------------------------------------------------- vocabulary of the claims

\* The backend calls an invocation made: the streams it opened.
OpenedBy(i) == { s \in 1..Len(streams) : streams[s].inv = i }

\* What the stream an invocation opened has emitted so far.
SentTo(i) == IF agent_stream[i] = 0 THEN <<>> ELSE streams[agent_stream[i]].sent

\* The emitted events the body is done with: all but the one it still holds
\* between receiving it (line 21) and yielding or dropping it (lines 22-23).
Handled(i) ==
    IF pc[i] \in {"test", "yield"}
    THEN SubSeq(SentTo(i), 1, Len(SentTo(i)) - 1)
    ELSE SentTo(i)

CarriesEventKey(e) == "event" \in e.keys

\* Events received from the stream and neither yielded nor dropped yet.
InFlight(i) == Len(SentTo(i)) - Len(out[i]) - dropped[i]

\* The body has run its first line (a generator closed before its first
\* __anext__ never ran any).
Started(i) ==
    /\ pc[i] \notin {"idle", "created"}
    /\ (pc[i] = "closed" => agent_stream[i] # 0)

Streaming(i) == pc[i] \in {"pull", "test", "yield", "yielded"}

AdapterErrors == {"AttributeError", "TypeError", "KeyError"}

\* ------------------------------------------------------------------ claims

\* C1: the events invoke has yielded are exactly the events of its stream
\* that contain the key "event", among those it is done with, in the order
\* received, each once and unmodified; no event without the key is in the
\* output.
C1_OutputIsFilteredStream ==
    \A i \in Invocations : out[i] = SelectSeq(Handled(i), CarriesEventKey)

C1_Witness ==
    \E i \in Invocations :
        /\ pc[i] = "done"
        /\ Len(SentTo(i)) = 2
        /\ ~CarriesEventKey(SentTo(i)[1])
        /\ out[i] = <<SentTo(i)[2]>>

\* C2: when the payload has a "prompt" key, the backend stream is opened
\* with exactly the value mapped to it, whatever its type, and two payloads
\* that agree on "prompt" lead to the same call whatever else they hold.
C2_PromptPassedVerbatim ==
    /\ \A s \in 1..Len(streams) :
         LET p == payload[streams[s].inv] IN
         "prompt" \in DOMAIN p.d => streams[s].prompt = p.d["prompt"]
    /\ \A s1, s2 \in 1..Len(streams) :
         LET p1 == payload[streams[s1].inv]
             p2 == payload[streams[s2].inv] IN
         ( /\ "prompt" \in DOMAIN p1.d
           /\ "prompt" \in DOMAIN p2.d
           /\ p1.d["prompt"] = p2.d["prompt"] ) => streams[s1].prompt = streams[s2].prompt
    /\ \A i \in Invocations :
         (Streaming(i) /\ "prompt" \in DOMAIN payload[i].d) => OpenedBy(i) # {}

C2_Witness ==
    \E s \in 1..Len(streams) :
        /\ "prompt" \in DOMAIN payload[streams[s].inv].d
        /\ payload[streams[s].inv].d["prompt"].t # "str"
        /\ streams[s].prompt.t # "str"

\* C3: a mapping without a "prompt" key gets the fallback string as its
\* prompt and runs as any other invocation: the stream is opened with the
\* fallback string, the adapter raises nothing of its own, and the output
\* is the filtered stream.
C3_MissingPromptUsesFallback ==
    \A i \in Invocations :
        (payload[i].t = "dict" /\ "prompt" \notin DOMAIN payload[i].d /\ Started(i)) =>
            /\ user_prompt[i] = FALLBACK
            /\ \A s \in OpenedBy(i) : streams[s].prompt = FALLBACK
            /\ err[i] \notin AdapterErrors
            /\ (pc[i] = "raised" => err[i] \in BackendErrors \cup {"CancelledError"})
            /\ (Streaming(i) \/ pc[i] = "done" => OpenedBy(i) # {})
            /\ out[i] = SelectSeq(Handled(i), CarriesEventKey)

C3_Witness ==
    \E i \in Invocations :
        /\ payload[i].t = "dict"
        /\ "prompt" \notin DOMAIN payload[i].d
        /\ pc[i] = "done"
        /\ out[i] # <<>>
        /\ streams[agent_stream[i]].prompt = FALLBACK

\* C4: when the stream raises before it has produced any event, the output
\* is empty, the invocation ends with that same error, and it has made no
\* second backend call.
C4_EarlyFailurePropagates ==
    \A s \in 1..Len(streams) :
        (streams[s].state = "failed" /\ streams[s].sent = <<>>) =>
            LET i == streams[s].inv IN
            /\ out[i] = <<>>
            /\ pc[i] = "raised"
            /\ err[i] = streams[s].error
            /\ OpenedBy(i) = {s}

C4_Witness ==
    \E i \in Invocations :
        /\ agent_stream[i] # 0
        /\ streams[agent_stream[i]].state = "failed"
        /\ streams[agent_stream[i]].sent = <<>>
        /\ streams[agent_stream[i]].error \in BackendErrors
        /\ pc[i] = "raised"

\* C5, as stated: once the body has started on a payload that is no mapping,
\* the invocation has failed with a type error (TypeError), with no backend
\* call and no output.
C5_NonMappingRaisesTypeError ==
    \A i \in Invocations :
        (payload[i].t # "dict" /\ Started(i)) =>
            /\ pc[i] = "raised"
            /\ err[i] = "TypeError"
            /\ OpenedBy(i) = {}
            /\ out[i] = <<>>

\* C5, amended: once the body has started on a payload that is no mapping,
\* the invocation has failed with AttributeError (the value has no `get`),
\* with no backend call and no output.
C5_NonMappingRaisesAttributeError ==
    \A i \in Invocations :
        (payload[i].t # "dict" /\ Started(i)) =>
            /\ pc[i] = "raised"
            /\ err[i] = "AttributeError"
            /\ OpenedBy(i) = {}
            /\ out[i] = <<>>

C5_Witness ==
    \E i \in Invocations :
        /\ payload[i].t = "list"
        /\ pc[i] = "raised"
        /\ err[i] = "AttributeError"

\* C6, as stated: an invocation that has ended (also by the caller closing
\* it early or the host cancelling it) has no underlying stream still open.
C6_EndedMeansStreamReleased ==
    \A i \in Invocations :
        \A s \in OpenedBy(i) : Ended(i) => streams[s].state # "open"

\* C7: every invocation that streams made its own backend call: it iterates
\* the one stream it opened itself, no two invocations share a stream (also
\* with equal payloads), and its output is the filter of its own stream.
C7_IndependentCalls ==
    /\ \A i \in Invocations :
         /\ (Streaming(i) \/ pc[i] = "done") => agent_stream[i] # 0
         /\ agent_stream[i] # 0 => OpenedBy(i) = {agent_stream[i]}
         /\ Cardinality(OpenedBy(i)) <= 1
         /\ out[i] = SelectSeq(Handled(i), CarriesEventKey)
    /\ \A i, j \in Invocations :
         (i # j /\ agent_stream[i] # 0) => agent_stream[i] # agent_stream[j]

C7_Witness ==
    \E i, j \in Invocations :
        /\ i # j
        /\ payload[i] = payload[j]
        /\ pc[i] = "done"
        /\ pc[j] = "done"
        /\ Len(streams) = 2
        /\ out[i] # <<>>
        /\ out[j] = <<>>

\* C8: an invocation holds at most one event received and not yet yielded
\* or dropped, and holds none whenever it asks the stream for the next event
\* or is suspended at a yield.
C8_AtMostOneInFlight ==
    \A i \in Invocations :
        /\ InFlight(i) \in {0, 1}
        /\ (pc[i] \in {"pull", "yielded"} => InFlight(i) = 0)

C8_Witness ==
    \E i \in Invocations :
        /\ pc[i] = "test"
        /\ InFlight(i) = 1
        /\ Len(out[i]) = 1

\* C9: the agent binding always is the object made at startup and every
\* backend call uses it; every event in an invocation's output comes from
\* the stream that invocation opened, in that stream's order.
C9_NoSharedWritesNoMixing ==
    /\ agent = create_agent
    /\ \A s \in 1..Len(streams) : streams[s].agent = create_agent
    /\ \A i \in Invocations :
         /\ \A k \in 1..Len(out[i]) : out[i][k].sid \in OpenedBy(i)
         /\ \A k \in 1..Len(out[i]) : streams[out[i][k].sid].sent[out[i][k].n] = out[i][k]
         /\ \A k, l \in 1..Len(out[i]) : k < l => out[i][k].n < out[i][l].n

C9_Witness ==
    /\ \A i \in Invocations : pc[i] = "yielded" /\ Len(out[i]) = 2
    /\ payload[1] # payload[2]

\* C10: an invocation that was started ends (when the caller keeps
\* consuming and the stream answers); once ended it stays ended, yields
\* nothing more, pulls nothing more from its stream and opens no stream.
C10_TerminatesAndStaysEnded ==
    /\ \A i \in Invocations : (pc[i] = "created") ~> Ended(i)
    /\ [][\A i \in Invocations :
            Ended(i) => /\ pc'[i] = pc[i]
                        /\ out'[i] = out[i]
                        /\ OpenedBy(i)' = OpenedBy(i)
                        /\ \A s \in OpenedBy(i) : streams'[s].sent = streams[s].sent]_vars

C10_Witness ==
    \E i \in Invocations :
        /\ pc[i] = "done"
        /\ Len(out[i]) = 2

====
